---- MODULE Spec2Model ----
(***************************************************************************)
(* A model of the CHIP-8 interpreter of c8.go: the ROM picker (UI), the    *)
(* keyboard queue, the memory, the video memory and the CPU's Tick.        *)
(*                                                                         *)
(* Go's run-time panics (index or slice bounds out of range) and the       *)
(* panic of main's oncompleted callback end the process: they are modelled *)
(* by status = "panic", after which no action is enabled.  The state a     *)
(* panicking handler leaves behind cannot be observed, so a panicking step *)
(* changes status alone.                                                   *)
(*                                                                         *)
(* Large arrays are kept sparse: mem maps the addresses that hold a        *)
(* non-zero byte to that byte, and a video plane is the set of the         *)
(* coordinates <<x, y>> whose cell is 1.                                   *)
(*                                                                         *)
(* Wall-clock time is counted in half sixtieths of a second.  The code     *)
(* reads cpu.lastd and cpu.lasts only as now.Sub(last) > 1/60 s, so the    *)
(* model keeps the elapsed times now - lastd and now - lasts, saturated at *)
(* MaxElapsed, instead of the time stamps.  cpu.lastd is read only while  *)
(* dt > 0, and dt becomes positive only by Fx15, which sets lastd: the     *)
(* elapsed time of a timer that is 0 is never read and is kept at 0 (the   *)
(* same for st and lasts).  Time passes between two calls of Update and    *)
(* not within one.                                                         *)
(***************************************************************************)
EXTENDS Integers, Sequences, FiniteSets, TLC

VARIABLES
    scene,       \* Game.scene: "ui" (the ROM picker) or "c8" (the console)
    status,      \* "running", or "panic" once the process has died
    v, i, stack, sp, pc, dt, st,    \* the fields of Cpu
    sinceD,      \* now - cpu.lastd, saturated
    sinceS,      \* now - cpu.lasts, saturated
    mem,         \* Memory.buf
    buf, vmem,   \* VideoMemory.buf and VideoMemory.mem
    queue,       \* Keyboard.queue
    held,        \* the host: the keys held down, as PressedKeys returns them
    keyChanges,  \* the host: how often held has changed
    screen,      \* the host: the cells of the screen painted white
    last         \* history: what the latest tick executed, see Executed

vars == <<scene, status, v, i, stack, sp, pc, dt, st, sinceD, sinceS,
          mem, buf, vmem, queue, held, keyChanges, screen, last>>

(***************************************************************************)
(* Bounds of the model.                                                    *)
(***************************************************************************)
\* Update is not taken when it would make the keyboard queue longer than this.
MaxQueue == 17
\* How many times the player changes the set of keys held down.
MaxKeyChanges == 1
\* The longest time between two calls of Update, in half sixtieths of a second.
MaxDelta == 2
\* The elapsed times saturate here.
MaxElapsed == 4

(***************************************************************************)
(* Constants of the program.                                               *)
(***************************************************************************)
V_PIXELS == 32
H_PIXELS == 64
BUTTON_WIDTH == 80
BUTTON_HIGHT == 23
SELECT_HIGHT == 45
\* len(Memory.buf): [0xFFF]byte
MemSize == 4095
\* Memory.Load reads into m.buf[0x200:]
LoadBase == 512
\* len(Cpu.stack): [16]uint16
StackSize == 16
\* 1.0/60 s, in the model's time unit
Sixtieth == 2

U8(n) == (n + 256) % 256
U16(n) == (n + 65536) % 65536
Min(a, b) == IF a < b THEN a ELSE b

\* Bit k (0 = least significant) of a byte: (b >> k) & 0x1.
Bit(b, k) == (b \div (2 ^ k)) % 2

RECURSIVE BitOp(_, _, _, _)
\* The bitwise operation on two bytes whose truth table is tt[bit of a][bit of b].
BitOp(tt, a, b, k) ==
    IF k = 8 THEN 0
    ELSE tt[Bit(a, k)][Bit(b, k)] * (2 ^ k) + BitOp(tt, a, b, k + 1)

And8(a, b) == BitOp(<<<<0, 0>>, <<0, 1>>>>, a, b, 0)
Or8(a, b) == BitOp(<<<<0, 1>>, <<1, 1>>>>, a, b, 0)
Xor8(a, b) == BitOp(<<<<0, 1>>, <<1, 0>>>>, a, b, 0)

(***************************************************************************)
(* Memory.                                                                 *)
(***************************************************************************)
\* The font sprites NewMemory puts at addresses 0..79.
FontSet ==
    << \hF0, \h90, \h90, \h90, \hF0,   \h20, \h60, \h20, \h20, \h70,
       \hF0, \h10, \hF0, \h80, \hF0,   \hF0, \h10, \hF0, \h10, \hF0,
       \h90, \h90, \hF0, \h10, \h10,   \hF0, \h80, \hF0, \h10, \hF0,
       \hF0, \h80, \hF0, \h90, \hF0,   \hF0, \h10, \h20, \h40, \h40,
       \hF0, \h90, \hF0, \h90, \hF0,   \hF0, \h90, \hF0, \h10, \hF0,
       \hF0, \h90, \hF0, \h90, \h90,   \hE0, \h90, \hE0, \h90, \hE0,
       \hF0, \h80, \h80, \h80, \hF0,   \hE0, \h90, \h90, \h90, \hE0,
       \hF0, \h80, \hF0, \h80, \hF0,   \hF0, \h80, \hF0, \h80, \h80 >>

\* m.buf[a], for a within the array.
ReadByte(m, a) == IF a \in DOMAIN m THEN m[a] ELSE 0

\* m.buf[a] = b, for a within the array.
WriteByte(m, a, b) ==
    IF b = 0 THEN [c \in DOMAIN m \ {a} |-> m[c]]
    ELSE [c \in DOMAIN m \cup {a} |-> IF c = a THEN b ELSE m[c]]

NewMemory == [a \in 0 .. Len(FontSet) - 1 |-> FontSet[a + 1]]

\* f.Read(m.buf[0x200:]): one read of at most len(m.buf) - 0x200 bytes.
Load(m, image) ==
    LET n == Min(Len(image), MemSize - LoadBase)
        kept == {a \in DOMAIN m : a < LoadBase \/ a >= LoadBase + n}
        set == {LoadBase + k - 1 : k \in {j \in 1 .. n : image[j] # 0}}
    IN  [a \in kept \cup set |->
            IF a \in set THEN image[a - LoadBase + 1] ELSE m[a]]

(***************************************************************************)
(* Keyboard.                                                               *)
(***************************************************************************)
keytohex(key) ==
    IF key >= 43 /\ key <= 52 THEN U16(key - 43) ELSE U16(key + 16)

\* The keys Keyboard.Update puts on the queue.
KeyAccepted(key) == (key >= 43 /\ key <= 52) \/ (key >= 0 /\ key <= 5)

RECURSIVE KeyboardUpdate(_, _)
\* Keyboard.Update, with pressed the slice inpututil.PressedKeys() returns.
KeyboardUpdate(q, pressed) ==
    IF pressed = <<>> THEN q
    ELSE KeyboardUpdate(
             IF KeyAccepted(Head(pressed))
             THEN Append(q, keytohex(Head(pressed)))
             ELSE q,
             Tail(pressed))

\* Keyboard.Pop as it would be if it took the newest key.
PopNewest(q) ==
    IF Len(q) > 0
    THEN [key |-> <<q[Len(q)]>>, queue |-> SubSeq(q, 1, Len(q) - 1)]
    ELSE [key |-> <<>>, queue |-> q]

\* Keyboard.Pop: key is <<k>> for a pointer to k and <<>> for nil.
Pop(q) ==
    IF Len(q) > 0
    THEN [key |-> <<q[1]>>, queue |-> SubSeq(q, 2, Len(q))]
    ELSE [key |-> <<>>, queue |-> q]

RECURSIVE DrainFor(_, _, _)
\* The loop of Ex9E and ExA1: pops until Pop returns nil; pressed tells
\* whether a popped key equalled vx.
DrainFor(q, vx, pressed) ==
    LET p == Pop(q)
    IN  IF p.key = <<>> THEN [pressed |-> pressed, queue |-> p.queue]
        ELSE DrainFor(p.queue, vx, pressed \/ vx = p.key[1])

(***************************************************************************)
(* Video memory.  A draw result is [buf, vf, ok]; ok is FALSE when an      *)
(* index was out of range (a run-time panic).                              *)
(***************************************************************************)
NewVideoMemory == {}

\* VideoMemory.clear
clear(b) == {}


\* draw_pixcel as it would be if every 1 bit of a sprite counted as a
\* collision.
draw_pixcelAnyBit(b, x, y, new) ==
    IF x >= H_PIXELS \/ y >= V_PIXELS
    THEN [buf |-> b, vf |-> 0, ok |-> FALSE]
    ELSE [buf |-> IF new = 1
                  THEN (IF <<x, y>> \in b THEN b \ {<<x, y>>} ELSE b \cup {<<x, y>>})
                  ELSE b,
          vf |-> IF new = 1 THEN 1 ELSE 0,
          ok |-> TRUE]

\* draw_pixcel as it would be with |= in place of ^=.
draw_pixcelOr(b, x, y, new) ==
    IF x >= H_PIXELS \/ y >= V_PIXELS
    THEN [buf |-> b, vf |-> 0, ok |-> FALSE]
    ELSE [buf |-> IF new = 1 THEN b \cup {<<x, y>>} ELSE b,
          vf |-> IF <<x, y>> \in b /\ new = 1 THEN 1 ELSE 0,
          ok |-> TRUE]

\* VideoMemory.draw_pixcel
draw_pixcel(b, x, y, new) ==
    IF x >= H_PIXELS \/ y >= V_PIXELS
    THEN [buf |-> b, vf |-> 0, ok |-> FALSE]
    ELSE [buf |-> IF new = 1
                  THEN (IF <<x, y>> \in b THEN b \ {<<x, y>>} ELSE b \cup {<<x, y>>})
                  ELSE b,
          vf |-> IF <<x, y>> \in b /\ new = 1 THEN 1 ELSE 0,
          ok |-> TRUE]

\* One more call of draw_pixcel in VideoMemory.draw: r is the result so far,
\* of which vf is the sum of the collisions.
Step(r, x, y, new) ==
    IF ~r.ok THEN r
    ELSE LET p == draw_pixcel(r.buf, x, y, new)
         IN  [buf |-> p.buf, vf |-> U16(r.vf + p.vf), ok |-> p.ok]

\* The body of the loop of VideoMemory.draw for byte number n (from 0).
DrawByte(r, x, y, n, byte) ==
    Step(Step(Step(Step(Step(Step(Step(Step(r,
        x, U16(y + n), Bit(byte, 7)),
        U16(x + 1), U16(y + n), Bit(byte, 6)),
        U16(x + 2), U16(y + n), Bit(byte, 5)),
        U16(x + 3), U16(y + n), Bit(byte, 4)),
        U16(x + 4), U16(y + n), Bit(byte, 3)),
        U16(x + 5), U16(y + n), Bit(byte, 2)),
        U16(x + 6), U16(y + n), Bit(byte, 1)),
        U16(x + 7), U16(y + n), Bit(byte, 0))

RECURSIVE DrawFrom(_, _, _, _, _)
\* The loop of VideoMemory.draw from byte number n on.
DrawFrom(r, x, y, bytes, n) ==
    IF n >= Len(bytes) \/ ~r.ok THEN r
    ELSE DrawFrom(DrawByte(r, x, y, n, bytes[n + 1]), x, y, bytes, n + 1)


\* VideoMemory.draw as it would be if it returned the collisions of the
\* first row of the sprite only.
drawFirstRow(b, x, y, bytes) ==
    LET r == DrawFrom([buf |-> b, vf |-> 0, ok |-> TRUE], x, y, bytes, 0)
        f == DrawFrom([buf |-> b, vf |-> 0, ok |-> TRUE], x, y, SubSeq(bytes, 1, 1), 0)
    IN  [r EXCEPT !.vf = IF f.vf > 0 THEN 1 ELSE 0]

\* VideoMemory.draw
draw(b, x, y, bytes) ==
    LET r == DrawFrom([buf |-> b, vf |-> 0, ok |-> TRUE], x, y, bytes, 0)
    IN  [r EXCEPT !.vf = IF r.vf > 0 THEN 1 ELSE 0]

(***************************************************************************)
(* CPU.  A machine c is the record of the objects Tick works on:           *)
(* [v, i, stack, sp, pc, dt, st, sinceD, sinceS, mem, buf, queue, status]. *)
(* Only v[0..15] of the 64 entries of Cpu.v can be addressed by an opcode. *)
(***************************************************************************)
Panic(c) == [c EXCEPT !.status = "panic"]

\* Next.exec
NextExec(c) == [c EXCEPT !.pc = U16(@ + 2)]

\* Skip.exec
SkipExec(c) == [c EXCEPT !.pc = U16(@ + 4)]

\* Jump.exec
JumpExec(c, addr) == [c EXCEPT !.pc = addr]


\* 00EE RET as it would be if it resumed at the CALL itself.
RetToCall(c) ==
    LET top == U16(c.sp - 1)
    IN  IF top >= StackSize THEN Panic(c)
        ELSE JumpExec([c EXCEPT !.sp = top], c.stack[top])

\* 00EE RET
Ret(c) ==
    LET top == U16(c.sp - 1)
    IN  IF top >= StackSize THEN Panic(c)
        ELSE JumpExec([c EXCEPT !.sp = top], U16(c.stack[top] + 2))

\* 2nnn CALL as it would be with a stack declared one entry longer.
CallLongerStack(c, nnn) ==
    IF c.sp >= StackSize + 1 THEN Panic(c)
    ELSE JumpExec([c EXCEPT
                      !.stack = [s \in DOMAIN @ \cup {c.sp} |->
                                    IF s = c.sp THEN c.pc ELSE @[s]],
                      !.sp = U16(c.sp + 1)], nnn)

\* 2nnn CALL
Call(c, nnn) ==
    IF c.sp >= StackSize THEN Panic(c)
    ELSE JumpExec([c EXCEPT !.stack[c.sp] = c.pc, !.sp = U16(c.sp + 1)], nnn)

\* 8xy0 .. 8xyE; any other o4 leaves the registers alone.  cmd = Next{}
\* follows the switch for every o4.
Alu(c, x, y, o4) ==
    LET vx == c.v[x]
        vy == c.v[y]
        xy == U16(vx + vy)
        flag(b) == [c.v EXCEPT ![15] = IF b THEN 1 ELSE 0]
        w == CASE o4 = 0 -> [c.v EXCEPT ![x] = vy]
               [] o4 = 1 -> [c.v EXCEPT ![x] = Or8(vx, vy)]
               [] o4 = 2 -> [c.v EXCEPT ![x] = And8(vx, vy)]
               [] o4 = 3 -> [c.v EXCEPT ![x] = Xor8(vx, vy)]
               [] o4 = 4 -> [flag(xy > 255) EXCEPT ![x] = xy % 256]
               [] o4 = 5 -> [flag(vx > vy) EXCEPT ![x] = U8(vx - vy)]
               [] o4 = 6 -> LET w1 == [c.v EXCEPT ![15] = vx % 2]
                            IN  [w1 EXCEPT ![x] = w1[x] \div 2]
               [] o4 = 7 -> [flag(vy > vx) EXCEPT ![x] = U8(vy - vx)]
               [] o4 = 14 -> LET w1 == [c.v EXCEPT ![15] = c.v[x] \div 128]
                             IN  [w1 EXCEPT ![x] = U8(w1[x] * 2)]
               [] OTHER -> c.v
    IN  NextExec([c EXCEPT !.v = w])

\* Dxyn DRW: bytes := mem.buf[cpu.i : cpu.i+uint16(n)] panics unless
\* i <= i+n <= len(mem.buf).
Drw(c, vx, vy, n) ==
    LET hi == U16(c.i + n)
    IN  IF ~(c.i <= hi /\ hi <= MemSize) THEN Panic(c)
        ELSE LET bytes == [k \in 1 .. n |-> ReadByte(c.mem, c.i + k - 1)]
                 r == draw(c.buf, vx, vy, bytes)
             IN  IF ~r.ok THEN Panic(c)
                 ELSE NextExec([c EXCEPT !.buf = r.buf, !.v[15] = r.vf])


\* Ex9E and ExA1 as they would be if only the oldest pending key were
\* compared with Vx.
KeySkipOldest(c, vx, skipIfPressed) ==
    LET pressed == c.queue # <<>> /\ c.queue[1] = vx
        d == [c EXCEPT !.queue = <<>>]
    IN  IF pressed = skipIfPressed THEN SkipExec(d) ELSE NextExec(d)

\* Ex9E SKP (skipIfPressed) and ExA1 SKNP: the switch is on o3 alone.
KeySkip(c, vx, skipIfPressed) ==
    LET r == DrainFor(c.queue, vx, FALSE)
        d == [c EXCEPT !.queue = r.queue]
    IN  IF r.pressed = skipIfPressed THEN SkipExec(d) ELSE NextExec(d)

\* Fx0A as it would be if cmd = Next{} followed the if.
WaitKeyNoBlock(c, x) ==
    LET p == Pop(c.queue)
    IN  IF p.key # <<>>
        THEN NextExec([c EXCEPT !.queue = p.queue, !.v[x] = U8(p.key[1])])
        ELSE NextExec(c)

\* Fx0A LD Vx, K
WaitKey(c, x) ==
    LET p == Pop(c.queue)
    IN  IF p.key # <<>>
        THEN NextExec([c EXCEPT !.queue = p.queue, !.v[x] = U8(p.key[1])])
        ELSE c

\* Fx33 LD B
StoreBcd(c, vx) ==
    LET a0 == c.i
        a1 == U16(c.i + 1)
        a2 == U16(c.i + 2)
        b == U8(vx)
    IN  IF a0 >= MemSize \/ a1 >= MemSize \/ a2 >= MemSize THEN Panic(c)
        ELSE NextExec([c EXCEPT !.mem =
                 WriteByte(WriteByte(WriteByte(@, a0, (b \div 100) % 10),
                                     a1, (b \div 10) % 10),
                           a2, b % 10)])

RECURSIVE StoreRegs(_, _, _)
\* Fx55 LD [I]: the loop from n on
StoreRegs(c, x, n) ==
    IF n > x THEN NextExec(c)
    ELSE LET a == U16(c.i + n)
         IN  IF a >= MemSize THEN Panic(c)
             ELSE StoreRegs([c EXCEPT !.mem = WriteByte(@, a, c.v[n])], x, n + 1)

RECURSIVE LoadRegs(_, _, _)
\* Fx65 LD: the loop from n on
LoadRegs(c, x, n) ==
    IF n > x THEN NextExec(c)
    ELSE LET a == U16(c.i + n)
         IN  IF a >= MemSize THEN Panic(c)
             ELSE LoadRegs([c EXCEPT !.v[n] = ReadByte(c.mem, a)], x, n + 1)

\* The switch of Cpu.Tick on o1 .. o4 and cmd.exec; rnd is what cpu.rand()
\* returns.  Where no case matches cmd stays nil and pc is not changed.
Exec(c, o1, o2, o3, o4, rnd) ==
    LET nnn == o2 * 256 + o3 * 16 + o4
        kk == U8(o3 * 16 + o4)
        x == o2
        vx == c.v[o2]
        vy == c.v[o3]
    IN  CASE o1 = 0 ->
               IF o2 = 0
               THEN (IF o3 = 14 /\ o4 = 0 THEN NextExec([c EXCEPT !.buf = clear(@)])
                     ELSE IF o3 = 14 /\ o4 = 14 THEN Ret(c)
                     ELSE c)
               ELSE JumpExec(c, nnn)
          [] o1 = 1 -> JumpExec(c, nnn)
          [] o1 = 2 -> Call(c, nnn)
          [] o1 = 3 -> IF vx = kk THEN SkipExec(c) ELSE NextExec(c)
          [] o1 = 4 -> IF vx # kk THEN SkipExec(c) ELSE NextExec(c)
          [] o1 = 5 -> IF vx = vy THEN SkipExec(c) ELSE NextExec(c)
          [] o1 = 6 -> NextExec([c EXCEPT !.v[x] = kk])
          [] o1 = 7 -> NextExec([c EXCEPT !.v[x] = U8(@ + kk)])
          [] o1 = 8 -> Alu(c, x, o3, o4)
          [] o1 = 9 -> IF vx # vy THEN SkipExec(c) ELSE NextExec(c)
          [] o1 = 10 -> NextExec([c EXCEPT !.i = nnn])
          [] o1 = 11 -> JumpExec(c, U16(nnn + c.v[0]))
          [] o1 = 12 -> NextExec([c EXCEPT !.v[x] = And8(rnd, kk)])
          [] o1 = 13 -> Drw(c, vx, vy, o4)
          [] o1 = 14 ->
               IF o3 = 9 THEN KeySkip(c, vx, TRUE)
               ELSE IF o3 = 10 THEN KeySkip(c, vx, FALSE)
               ELSE c
          [] o1 = 15 ->
               CASE o3 = 0 /\ o4 = 7 -> NextExec([c EXCEPT !.v[x] = U8(c.dt)])
                 [] o3 = 0 /\ o4 = 10 -> WaitKey(c, x)
                 [] o3 = 1 /\ o4 = 5 -> NextExec([c EXCEPT !.dt = vx, !.sinceD = 0])
                 [] o3 = 1 /\ o4 = 8 -> NextExec([c EXCEPT !.st = vx, !.sinceS = 0])
                 [] o3 = 1 /\ o4 = 14 -> NextExec([c EXCEPT !.i = U16(@ + vx)])
                 [] o3 = 2 -> NextExec([c EXCEPT !.i = U16(vx * 5)])
                 [] o3 = 3 -> StoreBcd(c, vx)
                 [] o3 = 5 -> StoreRegs(c, x, 0)
                 [] o3 = 6 -> LoadRegs(c, x, 0)
                 [] OTHER -> c

\* The end of Cpu.Tick as it would be without the tests of dt > 0 and
\* st > 0.
TimersNoFloor(c) ==
    LET c1 == IF c.sinceD > Sixtieth
              THEN [c EXCEPT !.dt = U16(@ - 1), !.sinceD = 0]
              ELSE c
    IN  IF c1.sinceS > Sixtieth
        THEN [c1 EXCEPT !.st = U16(@ - 1), !.sinceS = 0]
        ELSE c1


\* The end of Cpu.Tick: each timer is decremented by one when more than a
\* sixtieth of a second has passed since its last change.
Timers(c) ==
    LET c1 == IF c.sinceD > Sixtieth /\ c.dt > 0
              THEN [c EXCEPT !.dt = U16(@ - 1), !.sinceD = 0]
              ELSE c
    IN  IF c1.sinceS > Sixtieth /\ c1.st > 0
        THEN [c1 EXCEPT !.st = U16(@ - 1), !.sinceS = 0]
        ELSE c1

\* The fetch of Cpu.Tick reads mem.buf[cpu.pc] and mem.buf[cpu.pc+1].
FetchOk(m, p) == p < MemSize /\ U16(p + 1) < MemSize

\* The four nibbles o1 .. o4 of the opcode at p.
Nibbles(m, p) ==
    << ReadByte(m, p) \div 16, ReadByte(m, p) % 16,
       ReadByte(m, U16(p + 1)) \div 16, ReadByte(m, U16(p + 1)) % 16 >>

\* Cpu.Tick as it would be if the timers were updated only after an
\* instruction that moved pc.
TickCoupled(c, rnd) ==
    IF ~FetchOk(c.mem, c.pc) THEN Panic(c)
    ELSE CHOOSE t \in {IF r.status = "panic" THEN Panic(c)
                       ELSE IF r.pc = c.pc THEN r
                       ELSE Timers(r) :
                          r \in {Exec(c, o[1], o[2], o[3], o[4], rnd) :
                                     o \in {Nibbles(c.mem, c.pc)}}} : TRUE

\* Cpu.Tick: o is the opcode fetched, r the machine after the switch and
\* cmd.exec, t the machine after the timers (each the one element of its set).
Tick(c, rnd) ==
    IF ~FetchOk(c.mem, c.pc) THEN Panic(c)
    ELSE CHOOSE t \in {IF r.status = "panic" THEN Panic(c) ELSE Timers(r) :
                          r \in {Exec(c, o[1], o[2], o[3], o[4], rnd) :
                                     o \in {Nibbles(c.mem, c.pc)}}} : TRUE

(***************************************************************************)
(* The host: the ROM files, the keys and the mouse.                        *)
(***************************************************************************)
\* An image of n bytes: head, zeros, tail.
Padded(head, n, tail) ==
    [k \in 1 .. n |->
        IF k <= Len(head) THEN head[k]
        ELSE IF k > n - Len(tail) THEN tail[k - (n - Len(tail))]
        ELSE 0]

\* The images of the ROM files, by path.  roms/absent.ch8 does not exist.
FileSystem ==
    [ calls   |-> << \h22, \h00 >>,
      ret     |-> << \h00, \hEE >>,
      callret |-> << \h22, \h04, \h00, \h00, \h00, \hEE >>,
      illegal |-> << \h80, \h18, \h51, \h21, \h00, \h00, \hE0, \h00 >>,
      badaddr |-> << \h1F, \hFF >>,
      bcd     |-> << \h60, \hFF, \hF0, \h33, \h12, \h04 >>,
      waitkey |-> << \hF0, \h0A, \h12, \h00 >>,
      spin    |-> << \h12, \h00 >>,
      skp     |-> << \h60, \h07, \hE0, \h9E, \h12, \h02, \hE0, \hA1, \h12, \h00 >>,
      timer   |-> << \h60, \h03, \hF0, \h15, \hF0, \h18, \hF1, \h0A, \h12, \h06 >>,
      add     |-> << \h60, \h0A, \h61, \h05, \h80, \h14, \h12, \h06 >>,
      glyph   |-> << \hD0, \h05, \hD0, \h05, \h00, \hE0, \h12, \h00 >>,
      nested  |-> << \h22, \h04, \h12, \h02, \h22, \h08, \h00, \hEE, \h00, \hEE >>,
      sprites |-> << \hD0, \h05, \hD0, \h05, \hD0, \h05, \hA0, \h05,
                     \hD0, \h05, \hD0, \h05, \h00, \hE0, \h12, \h0E >>,
      clip    |-> << \h60, \h3E, \h61, \h1E, \hD0, \h12 >>,
      font    |-> << \h60, \h0A, \hF0, \h29, \h60, \h10, \hF0, \h29, \h12, \h08 >>,
      regs    |-> << \h60, \hAB, \h61, \hCD, \hA3, \h00, \hF1, \h55,
                     \hF1, \h65, \h12, \h0A >>,
      sknp    |-> << \h60, \h07, \hE0, \hA1, \h12, \h02, \h12, \h06 >>,
      wrap    |-> << \h60, \h40, \h61, \h20, \hD0, \h15 >>,
      stall   |-> << \h60, \h03, \hF0, \h15, \hF0, \h18, \h00, \h00 >>,
      edge    |-> << \hAF, \hFF, \hF0, \h55, \hF0, \h65, \h12, \h06 >>,
      full    |-> Padded(<< \h12, \h00, \h46 >>, 3584, << \hAA >>),
      large   |-> Padded(<< \h12, \h00, \h4C >>, 3585, << \hAA, \hBB >>) ]

\* The table ROMS of NewUI: button n (from 0) shows ROMS[n + 1].
ROMS ==
    << [name |-> "Calls", path |-> "calls"],
       [name |-> "Ret", path |-> "ret"],
       [name |-> "Call Ret", path |-> "callret"],
       [name |-> "Illegal", path |-> "illegal"],
       [name |-> "Bad Address", path |-> "badaddr"],
       [name |-> "BCD", path |-> "bcd"],
       [name |-> "Wait Key", path |-> "waitkey"],
       [name |-> "Spin", path |-> "spin"],
       [name |-> "Skip Key", path |-> "skp"],
       [name |-> "Timer", path |-> "timer"],
       [name |-> "Add", path |-> "add"],
       [name |-> "Glyph", path |-> "glyph"],
       [name |-> "Nested", path |-> "nested"],
       [name |-> "Sprites", path |-> "sprites"],
       [name |-> "Clip", path |-> "clip"],
       [name |-> "Font", path |-> "font"],
       [name |-> "Regs", path |-> "regs"],
       [name |-> "Sknp", path |-> "sknp"],
       [name |-> "Wrap", path |-> "wrap"],
       [name |-> "Stall", path |-> "stall"],
       [name |-> "Edge", path |-> "edge"],
       [name |-> "Full", path |-> "full"],
       [name |-> "Large", path |-> "large"],
       [name |-> "Absent", path |-> "absent"] >>

\* The grid place NewUI gives button n.
ButtonX(n) == n % 8
ButtonY(n) == n \div 8

\* The test of UI.Update: the cursor is on button n.  The image of a button
\* is BUTTON_WIDTH-1 by BUTTON_HIGHT-1 and both ends of its bounds count.
OnButton(n, x, y) ==
    /\ x >= ButtonX(n) * BUTTON_WIDTH
    /\ x <= (BUTTON_WIDTH - 1) + ButtonX(n) * BUTTON_WIDTH
    /\ y >= ButtonY(n) * BUTTON_HIGHT + SELECT_HIGHT
    /\ y <= (BUTTON_HIGHT - 1) + ButtonY(n) * BUTTON_HIGHT + SELECT_HIGHT

\* Where the player may click: the title, and the middle of every button.
CursorPoints ==
    {<<160, 20>>} \cup
    {<<ButtonX(n) * BUTTON_WIDTH + 40, ButtonY(n) * BUTTON_HIGHT + SELECT_HIGHT + 11>> :
        n \in 0 .. Len(ROMS) - 1}

\* What inpututil.PressedKeys() may return: key 50 is one of the keys 43..52
\* ("0~9"), key 0 one of the keys 0..5, key 6 a key Keyboard.Update does not
\* take.
KeyCombos == {<<>>, <<50>>, <<0>>, <<0, 50>>, <<6>>}

\* What cpu.rand() may return.
RandBytes == {0, \hA5, \hFF}

\* ui.oncompleted of main: the scene changes, then the ROM is loaded; a
\* file that cannot be opened panics.
OnCompleted(g, rom) ==
    IF rom.path \in DOMAIN FileSystem
    THEN [g EXCEPT !.scene = "c8", !.mem = Load(@, FileSystem[rom.path])]
    ELSE [g EXCEPT !.scene = "c8", !.status = "panic"]

RECURSIVE ClickFrom(_, _, _, _)
\* The loop of UI.Update over the buttons from button n on; g is
\* [scene, mem, status].
ClickFrom(g, x, y, n) ==
    IF n >= Len(ROMS) \/ g.status = "panic" THEN g
    ELSE ClickFrom(IF OnButton(n, x, y) THEN OnCompleted(g, ROMS[n + 1]) ELSE g,
                   x, y, n + 1)

Elapse(since, d) == Min(since + d, MaxElapsed)

(***************************************************************************)
(* The state after main has built the objects, and the actions.            *)
(***************************************************************************)
Init ==
    /\ scene = "ui"
    /\ status = "running"
    /\ v = [r \in 0 .. 15 |-> 0]
    /\ i = 0
    /\ stack = [s \in 0 .. StackSize - 1 |-> 0]
    /\ sp = 0
    /\ pc = 512
    /\ dt = 0
    /\ st = 0
    /\ sinceD = 0
    /\ sinceS = 0
    /\ mem = NewMemory
    /\ buf = NewVideoMemory
    /\ vmem = NewVideoMemory
    /\ queue = <<>>
    /\ held = <<>>
    /\ keyChanges = 0
    /\ screen = {}
    /\ last = <<>>

\* Game.Update while the scene is the UI: UI.Update.
UiUpdate ==
    /\ scene = "ui"
    /\ status = "running"
    /\ \E clicked \in BOOLEAN, cursor \in CursorPoints :
          LET g == IF clicked
                   THEN ClickFrom([scene |-> scene, mem |-> mem, status |-> status],
                                  cursor[1], cursor[2], 0)
                   ELSE [scene |-> scene, mem |-> mem, status |-> status]
          IN  /\ scene' = g.scene
              /\ mem' = g.mem
              /\ status' = g.status
    /\ UNCHANGED <<last, v, i, stack, sp, pc, dt, st, sinceD, sinceS, buf, vmem, queue, held,
                   keyChanges, screen>>

\* The machine Tick works on, after Keyboard.Update has put the keys h on
\* the queue and d has passed since the last Update.  The clock of a timer
\* that is 0 is not kept in the state: its last change is taken to be long
\* ago, the case in which the test of the timer at the end of Tick decides.
Machine(h, d) ==
    [v |-> v, i |-> i, stack |-> stack, sp |-> sp, pc |-> pc, dt |-> dt, st |-> st,
     sinceD |-> IF dt > 0 THEN Elapse(sinceD, d) ELSE MaxElapsed,
     sinceS |-> IF st > 0 THEN Elapse(sinceS, d) ELSE MaxElapsed,
     mem |-> mem, buf |-> buf, queue |-> KeyboardUpdate(queue, h),
     status |-> status]

\* History: the instruction a tick is about to execute, with the registers,
\* I and the plane it starts from, if it is Dxyn or Fx55; <<>> otherwise.
Executed ==
    LET o == Nibbles(mem, pc)
    IN  IF FetchOk(mem, pc) /\ (o[1] = 13 \/ (o[1] = 15 /\ o[3] = 5))
        THEN <<[op |-> o, v |-> v, i |-> i, buf |-> buf]>>
        ELSE <<>>

\* The opcode at pc is Cxkk.
AtRnd == FetchOk(mem, pc) /\ Nibbles(mem, pc)[1] = 12

\* Game.Update while the scene is the console: Chip8.Update.
Chip8Update ==
    /\ scene = "c8"
    /\ status = "running"
    /\ \E h \in KeyCombos,
          d \in (IF dt > 0 \/ st > 0 THEN 0 .. MaxDelta ELSE {0}),
          rnd \in (IF AtRnd THEN RandBytes ELSE {0}) :
          /\ keyChanges + (IF h = held THEN 0 ELSE 1) <= MaxKeyChanges
          /\ Len(KeyboardUpdate(queue, h)) <= MaxQueue
          /\ \E m \in {Machine(h, d)} : \E r \in {Tick(m, rnd)} :
                 IF r.status = "panic"
                 THEN /\ status' = "panic"
                      /\ UNCHANGED <<v, i, stack, sp, pc, dt, st, sinceD, sinceS,
                                     mem, buf, queue, held, keyChanges, last>>
                 ELSE /\ status' = r.status
                      /\ last' = Executed
                      /\ v' = r.v
                      /\ i' = r.i
                      /\ stack' = r.stack
                      /\ sp' = r.sp
                      /\ pc' = r.pc
                      /\ dt' = r.dt
                      /\ st' = r.st
                      /\ sinceD' = IF r.dt > 0 THEN r.sinceD ELSE 0
                      /\ sinceS' = IF r.st > 0 THEN r.sinceS ELSE 0
                      /\ mem' = r.mem
                      /\ buf' = r.buf
                      /\ queue' = r.queue
                      /\ held' = h
                      /\ keyChanges' = keyChanges + (IF h = held THEN 0 ELSE 1)
    /\ UNCHANGED <<scene, vmem, screen>>

\* Game.Draw while the scene is the console: Chip8.Draw paints white, on the
\* screen the host has cleared, the cells whose buf and mem differ and whose
\* buf is 1.
Chip8Draw ==
    /\ scene = "c8"
    /\ status = "running"
    /\ screen' = {p \in buf : p \notin vmem}
    /\ UNCHANGED <<scene, status, v, i, stack, sp, pc, dt, st, sinceD, sinceS,
                   mem, buf, vmem, queue, held, keyChanges, last>>

Next == UiUpdate \/ Chip8Update \/ Chip8Draw

Spec == Init /\ [][Next]_vars

\* An Update before which wall-clock time has advanced; the model shows the
\* advance while a timer runs, as a decrement or as a later clock.
ClockStep ==
    /\ dt > 0 \/ st > 0
    /\ Chip8Update
    /\ (dt' < dt \/ st' < st \/ sinceD' > sinceD \/ sinceS' > sinceS)

\* The host calls Update again and again and the wall clock does not stand
\* still.
LiveSpec == Init /\ [][Next]_vars /\ WF_vars(ClockStep)

(***************************************************************************)
(* The properties.                                                         *)
(*                                                                         *)
(* Tick returns nil on every path, so the only outcomes of an Update are   *)
(* status "running" and status "panic"; a fault reported as the error of   *)
(* the tick would be another value of status.                              *)
(***************************************************************************)
\* A step of Chip8.Update: in the console scene every step that changes the
\* state and leaves the screen alone is one.
UpdateStep == scene = "c8" /\ status = "running" /\ screen' = screen

\* The opcode Tick is about to fetch, where the fetch is within memory.
Fetches == FetchOk(mem, pc)
Opcode == Nibbles(mem, pc)

\* image is the ROM that was loaded.
Loaded(image) ==
    scene = "c8" /\ \A k \in 1 .. Len(image) : ReadByte(mem, LoadBase + k - 1) = image[k]

\* The keys Keyboard.Update takes of pressed, as hex codes, in their order.
Pushed(pressed) ==
    LET taken == SelectSeq(pressed, KeyAccepted)
    IN  [k \in 1 .. Len(taken) |-> keytohex(taken[k])]

IsSuffix(s, t) ==
    Len(s) <= Len(t) /\ s = SubSeq(t, Len(t) - Len(s) + 1, Len(t))

\* C1: in every reachable state the stack pointer satisfies 0 <= SP <= 16.
C1_SpInRange == sp \in 0 .. 16

\* C1's case: sixteen nested CALLs have filled the stack.
C1_StackFull ==
    /\ Loaded(FileSystem.calls)
    /\ sp = 16
    /\ \A s \in 0 .. 15 : stack[s] = 512

\* C2: RET (00EE) with SP = 0 ends the tick with a StackUnderflow fault and
\* leaves PC, SP and the stack unchanged; it does not crash the host.
C2_RetUnderflowFaults ==
    [][(UpdateStep /\ Fetches /\ Opcode = <<0, 0, 14, 14>> /\ sp = 0)
         => (status' = "StackUnderflow" /\ pc' = pc /\ sp' = sp /\ stack' = stack)]_vars

\* C3: CALL (2nnn) with SP = 16 ends the tick with a StackOverflow fault and
\* changes neither PC, SP nor the stack; it does not crash the host.
C3_CallOverflowFaults ==
    [][(UpdateStep /\ Fetches /\ Opcode[1] = 2 /\ sp = 16)
         => (status' = "StackOverflow" /\ pc' = pc /\ sp' = sp /\ stack' = stack)]_vars

\* The bit patterns of the families 5, 8, 9, E and F that are no instruction:
\* 5xy? and 9xy? with ? # 0, 8xy? with ? not in {0..7, E}, Exyy other than
\* Ex9E and ExA1, Fxyy other than 07, 0A, 15, 18, 1E, 29, 33, 55 and 65.
Unrecognized(o) ==
    LET yy == <<o[3], o[4]>>
    IN  \/ o[1] \in {5, 9} /\ o[4] # 0
        \/ o[1] = 8 /\ o[4] \notin (0 .. 7) \cup {14}
        \/ o[1] = 14 /\ yy \notin {<<9, 14>>, <<10, 1>>}
        \/ o[1] = 15 /\ yy \notin {<<0, 7>>, <<0, 10>>, <<1, 5>>, <<1, 8>>, <<1, 14>>,
                                   <<2, 9>>, <<3, 3>>, <<5, 5>>, <<6, 5>>}

\* C4: an opcode that is no defined instruction ends the tick with an
\* IllegalInstruction fault; it is never executed as a no-op.
C4_IllegalInstructionFaults ==
    [][(UpdateStep /\ Fetches /\ Unrecognized(Opcode))
         => status' = "IllegalInstruction"]_vars

\* An access of the instruction at pc falls outside memory: its fetch, the
\* sprite of Dxyn, or the bytes of Fx33, Fx55 and Fx65.
AccessOutside ==
    \/ pc + 1 >= 4096
    \/ /\ Fetches
       /\ LET o == Opcode
          IN  \/ o[1] = 13 /\ i + o[4] > 4096
              \/ o[1] = 15 /\ o[3] = 3 /\ i + 2 >= 4096
              \/ o[1] = 15 /\ o[3] \in {5, 6} /\ i + o[2] >= 4096

\* C5: a fetch or an operand access outside [0, 4096) ends the tick with a
\* BadAddress fault; the core never panics the host.
C5_BadAddressFaults ==
    [][(UpdateStep /\ AccessOutside) => status' = "BadAddress"]_vars

\* C6: in every reachable state the bytes at addresses 0..79 are the font
\* table.
C6_FontTableUnchanged ==
    \A a \in 0 .. 79 : ReadByte(mem, a) = FontSet[a + 1]

\* Fx0A is the instruction at pc.
AtWaitKey == Fetches /\ Opcode[1] = 15 /\ Opcode[3] = 0 /\ Opcode[4] = 10

\* C7: Fx0A on an empty queue leaves PC and Vx unchanged, on every tick for
\* which the queue is empty; on a queue that is not empty it removes the
\* oldest key alone, stores it in Vx and advances PC by 2.
C7_WaitKeyBlocks ==
    [][(UpdateStep /\ AtWaitKey) =>
          LET q == queue \o Pushed(held')
              x == Opcode[2]
          IN  IF q = <<>>
              THEN pc' = pc /\ v' = v /\ queue' = <<>>
              ELSE /\ pc' = pc + 2
                   /\ v' = [v EXCEPT ![x] = q[1]]
                   /\ queue' = Tail(q)]_vars

\* C7's case: the program that spins on Fx0A at 0x200 has taken key 7.
C7_KeyTaken ==
    /\ Loaded(FileSystem.waitkey)
    /\ pc = 514
    /\ v[0] = 7
    /\ held = <<50>>
    /\ queue = <<>>

\* C8: the keys are popped in the order of their pushes: over an Update the
\* queue becomes a suffix of the old queue followed by the keys pushed, an
\* empty queue stays empty, and the key Fx0A gets is the oldest one.
C8_PushOrder ==
    [][(UpdateStep /\ status' = "running") =>
          LET q == queue \o Pushed(held')
          IN  /\ IsSuffix(queue', q)
              /\ q = <<>> => queue' = <<>>
              /\ (AtWaitKey /\ q # <<>>) =>
                    (v'[Opcode[2]] = q[1] /\ queue' = Tail(q))]_vars

\* C8's case: of the keys 0x10 and 7, pushed in this order, the first has
\* been popped and the second is left.
C8_OldestPopped ==
    /\ Loaded(FileSystem.waitkey)
    /\ v[0] = 16
    /\ queue = <<7>>

\* C9: every value in the keypad queue is a hex code in 0..0xF.
C9_QueueHoldsHexCodes ==
    \A k \in 1 .. Len(queue) : queue[k] \in 0 .. 15

\* C10: the length of the keypad queue never exceeds 16.
C10_QueueBounded == Len(queue) <= 16

\* The opcode at pc is 2nnn; the opcode at pc is 00EE.
AtCall == Fetches /\ Opcode[1] = 2
AtRet == Fetches /\ Opcode = <<0, 0, 14, 14>>

\* The states of the programs callret and nested: where pc is, how deep the
\* stack is and what the entries in use hold.
CallRetStates ==
    /\ Loaded(FileSystem.callret) =>
           \/ pc = 512 /\ sp = 0
           \/ pc = 516 /\ sp = 1 /\ stack[0] = 512
           \/ pc = 514 /\ sp = 0
    /\ Loaded(FileSystem.nested) =>
           \/ pc = 512 /\ sp = 0
           \/ pc = 516 /\ sp = 1 /\ stack[0] = 512
           \/ pc = 520 /\ sp = 2 /\ stack[0] = 512 /\ stack[1] = 516
           \/ pc = 518 /\ sp = 1 /\ stack[0] = 512
           \/ pc = 514 /\ sp = 0

\* C11: CALL and RET match.  A CALL at p with the stack at depth s < 16
\* stores p in entry s, leaves the other entries alone and makes the depth
\* s + 1; a RET at depth s >= 1 resumes at entry s - 1 plus 2, makes the depth
\* s - 1 and leaves every entry alone; no other instruction touches the stack
\* or its depth.  So after the RET that matches a CALL at p with depth s, pc
\* is p + 2, the depth is s and the entries below s are as they were: the
\* program 22 04 00 00 00 EE is at 0x202 with depth 0 after two ticks.
C11_CallRetMatch ==
    /\ []CallRetStates
    /\ [][UpdateStep /\ status' = "running" =>
            IF AtCall
            THEN /\ sp' = sp + 1
                 /\ stack' = [stack EXCEPT ![sp] = pc]
                 /\ pc' = Opcode[2] * 256 + Opcode[3] * 16 + Opcode[4]
            ELSE IF AtRet
            THEN /\ sp' = sp - 1
                 /\ pc' = stack[sp - 1] + 2
                 /\ stack' = stack
            ELSE sp' = sp /\ stack' = stack]_vars

\* The nested program has returned from both of its calls.
C11_Returned ==
    /\ Loaded(FileSystem.nested)
    /\ pc = 514 /\ sp = 0 /\ stack[0] = 512 /\ stack[1] = 516

\* The opcode at pc is Dxyn, and what it passes to VideoMemory.draw.
AtDraw == Fetches /\ Opcode[1] = 13
DrawX == v[Opcode[2]]
DrawY == v[Opcode[3]]
DrawBytes == [k \in 1 .. Opcode[4] |-> ReadByte(mem, i + k - 1)]

\* The draw at pc on plane b, and the same draw once more on the plane it
\* leaves.
DrawOnce(b) == draw(b, DrawX, DrawY, DrawBytes)
DrawTwice(b) == draw(DrawOnce(b).buf, DrawX, DrawY, DrawBytes)

\* The Dxyn at pc can be executed: the sprite is in memory and on the plane.
Drawable == AtDraw /\ i + Opcode[4] <= MemSize /\ DrawOnce(buf).ok

\* The Dxyn at pc repeats the Dxyn of the tick before: the same opcode, the
\* same I (memory is not written in between, so the same sprite bytes) and
\* the same coordinates.
SecondDraw ==
    /\ AtDraw
    /\ last # <<>>
    /\ last[1].op = Opcode
    /\ last[1].i = i
    /\ last[1].v[Opcode[2]] = DrawX
    /\ last[1].v[Opcode[3]] = DrawY

\* The plane with the glyph of digit d (of FontSet) drawn at the origin of a
\* blank plane.
GlyphPlane(d) == draw({}, 0, 0, SubSeq(FontSet, 5 * d + 1, 5 * d + 5)).buf

\* Planes a draw may start from: the pending plane, the blank plane, planes
\* holding a glyph, a filled block, a pixel in the far corner.
StartPlanes ==
    {buf, {}, GlyphPlane(0), GlyphPlane(1), GlyphPlane(8),
     (0 .. 7) \X (0 .. 4), {<<H_PIXELS - 1, V_PIXELS - 1>>}}

\* C12: after every Dxyn VF is 0 or 1, and it is 1 exactly when a pixel of
\* the pending plane that was on before the draw is off after it.
C12_CollisionFlag ==
    [][UpdateStep /\ AtDraw /\ status' = "running" =>
          /\ v'[15] \in {0, 1}
          /\ v'[15] = 1 <=> \E p \in buf : p \notin buf']_vars

\* The draw of "1" over "0" in the sprites program has acted: it turned
\* pixels off and others on, and VF is 1.
C12_PartialOverlap ==
    /\ Loaded(FileSystem.sprites)
    /\ pc = 522 /\ v[15] = 1
    /\ \E p \in GlyphPlane(0) : p \notin buf
    /\ \E p \in buf : p \notin GlyphPlane(0)

\* C13: the same Dxyn executed twice in a row, with the same sprite at the
\* same coordinates, leaves the pending plane as it was before the first of
\* the two, whatever the plane held: in every state where a Dxyn can be
\* executed, drawing twice on any of StartPlanes gives the plane back, and every second draw the
\* program makes leaves the plane the first one started from.
C13_DrawTwiceRestores ==
    /\ [](Drawable => \A b \in StartPlanes : DrawTwice(b).ok /\ DrawTwice(b).buf = b)
    /\ [][UpdateStep /\ SecondDraw /\ status' = "running" =>
              buf' = last[1].buf]_vars

\* The sprites program has drawn "1" twice over the plane holding "0": the
\* plane holds "0" again.
C13_RestoredGlyph ==
    /\ Loaded(FileSystem.sprites)
    /\ pc = 524 /\ i = 5
    /\ last # <<>> /\ last[1].buf # buf
    /\ buf = GlyphPlane(0)

\* C14 as stated: the second of two identical draws always sets VF to 1.
C14_SecondDrawCollides ==
    [][UpdateStep /\ SecondDraw /\ status' = "running" => v'[15] = 1]_vars

\* C14: when the same sprite is drawn twice at the same coordinates, the
\* second Dxyn sets VF to 1 exactly when the first draw turned at least one
\* pixel on, that is when a 1 bit of the sprite fell on a pixel that was off
\* before the first draw; otherwise it sets VF to 0.
C14_SecondDrawCollidesIffFirstLit ==
    /\ [](Drawable =>
             \A b \in StartPlanes :
                 DrawTwice(b).vf = 1 <=> \E p \in DrawOnce(b).buf : p \notin b)
    /\ [][UpdateStep /\ SecondDraw /\ status' = "running" =>
              /\ v'[15] \in {0, 1}
              /\ v'[15] = 1 <=> \E p \in buf : p \notin last[1].buf]_vars

\* The sprites program has drawn "0" a third time: the draw before it had
\* cleared the plane, its own draw lit it and set VF to 0; and the next draw,
\* a second draw too, will find no pixel lit by the first.
C14_ThirdDraw ==
    /\ Loaded(FileSystem.sprites)
    /\ pc = 518 /\ v[15] = 0
    /\ last # <<>> /\ last[1].buf = {}
    /\ buf = GlyphPlane(0)

\* The Dxyn at pc starts on the plane and its sprite reaches past column 63
\* or row 31.
PastEdge ==
    /\ AtDraw /\ i + Opcode[4] <= MemSize
    /\ Opcode[4] >= 1
    /\ DrawX < H_PIXELS /\ DrawY < V_PIXELS
    /\ (DrawX + 7 >= H_PIXELS \/ DrawY + Opcode[4] - 1 >= V_PIXELS)

\* The pixels of the sprite of the Dxyn at pc that fall on the plane.
SpriteOnPlane ==
    {<<DrawX + c, DrawY + r>> : <<c, r>> \in
        {q \in (0 .. 7) \X (0 .. Opcode[4] - 1) :
            /\ Bit(DrawBytes[q[2] + 1], 7 - q[1]) = 1
            /\ DrawX + q[1] < H_PIXELS
            /\ DrawY + q[2] < V_PIXELS}}

\* C15: a Dxyn whose sprite reaches past column 63 or row 31 completes:
\* the tick ends running at the next instruction, the pixels of the sprite
\* that fall on the plane are XORed into it and the others are dropped.
C15_DrawClipsAtEdges ==
    [][UpdateStep /\ PastEdge =>
          /\ status' = "running"
          /\ pc' = pc + 2
          /\ buf' = (buf \ SpriteOnPlane) \cup (SpriteOnPlane \ buf)]_vars

\* The opcode at pc is Fx15; the opcode at pc is Fx18.
AtSetDT == Fetches /\ Opcode[1] = 15 /\ Opcode[3] = 1 /\ Opcode[4] = 5
AtSetST == Fetches /\ Opcode[1] = 15 /\ Opcode[3] = 1 /\ Opcode[4] = 8

\* C16: DT and ST stay within 0..255; a tick that does not execute Fx15
\* does not increase DT and leaves a DT of 0 at 0, and a tick that does not
\* execute Fx18 does the same for ST.
C16_TimersNeverIncrease ==
    /\ [](dt \in 0 .. 255 /\ st \in 0 .. 255)
    /\ [][UpdateStep =>
              /\ ~AtSetDT => dt' <= dt /\ (dt = 0 => dt' = 0)
              /\ ~AtSetST => st' <= st /\ (st = 0 => st' = 0)]_vars

\* The timer program has set both timers to 3 and both have run down to 0,
\* where they stay while time passes.
C16_RunDown ==
    /\ Loaded(FileSystem.timer)
    /\ pc = 518 /\ v[0] = 3
    /\ dt = 0 /\ st = 0

\* The opcode at pc is Fx29 (the switch is on o3 alone).
AtLoadFont == Fetches /\ Opcode[1] = 15 /\ Opcode[3] = 2

\* C17: Fx29 sets I so that the five bytes of memory from I on are the
\* glyph of the low nibble of Vx, whatever Vx in 0..255 is.
C17_FontAddressOfLowNibble ==
    [][UpdateStep /\ AtLoadFont =>
          /\ status' = "running"
          /\ \A k \in 0 .. 4 :
                 ReadByte(mem', i' + k) = FontSet[5 * (v[Opcode[2]] % 16) + k + 1]]_vars

\* The opcode at pc is Fx55; it is Fx65 (the switches are on o3 alone).
AtStoreRegs == Fetches /\ Opcode[1] = 15 /\ Opcode[3] = 5
AtLoadRegs == Fetches /\ Opcode[1] = 15 /\ Opcode[3] = 6

\* The Fx65 at pc follows an Fx55 with the same x, executed the tick before.
LoadAfterStore ==
    /\ AtLoadRegs
    /\ last # <<>>
    /\ last[1].op[1] = 15 /\ last[1].op[3] = 5
    /\ last[1].op[2] = Opcode[2]

\* C18: with I .. I + x within the 4096 bytes of memory, Fx55 completes and
\* leaves I alone, and the Fx65 with the same x right after it completes,
\* leaves I alone and leaves in V[0..x] what they held before the Fx55.
C18_StoreLoadRoundTrip ==
    /\ [][UpdateStep /\ AtStoreRegs /\ i + Opcode[2] < 4096 =>
              status' = "running" /\ i' = i]_vars
    /\ [][UpdateStep /\ LoadAfterStore /\ i + Opcode[2] < 4096 =>
              /\ status' = "running" /\ i' = i /\ i = last[1].i
              /\ \A n \in 0 .. Opcode[2] : v'[n] = last[1].v[n]]_vars

\* The step is the click that loads the image and starts the machine.
Loads(image) == scene = "ui" /\ scene' = "c8" /\ mem' = Load(mem, image)

\* C19: loading an image of more than 3584 bytes fails with the fault
\* ProgramTooLarge; it is not cut short and reported as loaded.
C19_ProgramTooLarge ==
    [][\A path \in DOMAIN FileSystem :
          Loads(FileSystem[path]) /\ Len(FileSystem[path]) > 3584 =>
              status' = "ProgramTooLarge"]_vars

\* C20: memory has 4096 bytes.  An image of 3584 bytes is loaded in full,
\* byte k of it at 0x200 + k, and an instruction that reads or writes
\* address 0xFFF (Fx55 or Fx65 with I + x = 0xFFF) completes.
C20_FourKilobytes ==
    /\ [][\A path \in DOMAIN FileSystem :
              Loads(FileSystem[path]) /\ Len(FileSystem[path]) = 3584 =>
                  \A k \in 0 .. 3583 :
                      ReadByte(mem', LoadBase + k) = FileSystem[path][k + 1]]_vars
    /\ [][UpdateStep /\ (AtStoreRegs \/ AtLoadRegs) /\ i + Opcode[2] = 4095 =>
              status' = "running"]_vars

\* The opcode at pc is Ex9E; it is ExA1.
AtSkp == Fetches /\ Opcode[1] = 14 /\ Opcode[3] = 9 /\ Opcode[4] = 14
AtSknp == Fetches /\ Opcode[1] = 14 /\ Opcode[3] = 10 /\ Opcode[4] = 1

\* C21: Ex9E looks at every key pending on the queue (those the Update of
\* this tick pushed included) and skips exactly when one of them is Vx;
\* ExA1 skips exactly when none of them is Vx; both leave the queue empty.
C21_KeySkipDrains ==
    [][UpdateStep /\ (AtSkp \/ AtSknp) =>
          LET q == queue \o Pushed(held')
              found == \E k \in 1 .. Len(q) : q[k] = v[Opcode[2]]
          IN  /\ status' = "running"
              /\ queue' = <<>>
              /\ pc' = IF found = AtSkp THEN pc + 4 ELSE pc + 2]_vars

\* The skp program has skipped on key 7, the second of the two keys the
\* Update of the tick pushed, and the queue is empty.
C21_SkippedOnSecondKey ==
    /\ Loaded(FileSystem.skp)
    /\ pc = 518 /\ v[0] = 7
    /\ held = <<0, 50>>
    /\ queue = <<>>

\* The pixels of the sprite of the Dxyn at pc with its top-left pixel at
\* (x, y).
SpriteAt(x, y) ==
    {<<x + q[1], y + q[2]>> : q \in
        {q \in (0 .. 7) \X (0 .. Opcode[4] - 1) :
            Bit(DrawBytes[q[2] + 1], 7 - q[1]) = 1}}

\* The sprite of the Dxyn at pc, put at the origin taken modulo the plane
\* size, lies on the plane.
FitsFromWrappedOrigin ==
    /\ AtDraw /\ i + Opcode[4] <= MemSize
    /\ (DrawX % H_PIXELS) + 7 < H_PIXELS
    /\ (DrawY % V_PIXELS) + Opcode[4] - 1 < V_PIXELS

\* C22: Dxyn draws the sprite with its top-left pixel at
\* (Vx mod 64, Vy mod 32), for every Vx and Vy in 0..255; stated for the
\* sprites that lie on the plane from there.
C22_OriginModuloPlane ==
    [][UpdateStep /\ FitsFromWrappedOrigin =>
          LET sprite == SpriteAt(DrawX % H_PIXELS, DrawY % V_PIXELS)
          IN  /\ status' = "running"
              /\ buf' = (buf \ sprite) \cup (sprite \ buf)]_vars

\* The whole sixtieths of a second in a time e.
Sixtieths(e) == e \div Sixtieth

\* C23: on a tick that does not set the timer, with more than a sixtieth of
\* a second passed since the last decrement of a positive timer, the timer
\* drops by the smaller of its value and the whole sixtieths passed.  Stated
\* of every tick the machine can make next, for every time d that may have
\* passed since the tick before.
C23_DecrementByElapsed ==
    (scene = "c8" /\ status = "running" /\ Fetches) =>
        \A d \in 0 .. MaxDelta :
            LET r == Tick(Machine(held, d), 0)
                eD == Elapse(sinceD, d)
                eS == Elapse(sinceS, d)
            IN  r.status = "running" =>
                  /\ (dt > 0 /\ ~AtSetDT /\ eD > Sixtieth) =>
                         r.dt = dt - Min(dt, Sixtieths(eD))
                  /\ (st > 0 /\ ~AtSetST /\ eS > Sixtieth) =>
                         r.st = st - Min(st, Sixtieths(eS))

\* The host can call Chip8.Update once more: the process is alive and the
\* bounds of the model on the queue and on the key changes allow a tick.
CanTick == ENABLED Chip8Update

\* C24: while ticks continue and time advances, a positive DT reaches 0
\* unless the program sets it again, and so does ST, whatever the program
\* does: blocked in Fx0A on an empty queue, or on an opcode that leaves pc
\* where it is.
C24_TimersRunDown ==
    /\ (dt > 0) ~> (dt = 0 \/ AtSetDT \/ ~CanTick)
    /\ (st > 0) ~> (st = 0 \/ AtSetST \/ ~CanTick)

\* The timer program, blocked in Fx0A with no key ever pressed, has seen
\* both timers run down from 3 to 0.
C24_RunDownWhileBlocked ==
    /\ Loaded(FileSystem.timer)
    /\ pc = 518 /\ v[0] = 3
    /\ keyChanges = 0 /\ queue = <<>>
    /\ dt = 0 /\ st = 0

\* The opcode at pc is 0nnn and neither 00E0 nor 00EE.
AtSys ==
    /\ Fetches /\ Opcode[1] = 0
    /\ Opcode # <<0, 0, 14, 0>> /\ Opcode # <<0, 0, 14, 14>>

\* C25: the tick of an opcode 0nnn other than 00E0 and 00EE ends with pc at
\* nnn, also for nnn below 0x100: 0000 sets pc to 0.
C25_SysIsJump ==
    (scene = "c8" /\ status = "running" /\ AtSys) =>
        LET r == Tick(Machine(held, 0), 0)
        IN  /\ r.status = "running"
            /\ r.pc = Opcode[2] * 256 + Opcode[3] * 16 + Opcode[4]

\* The step is a Chip8.Draw that changed what the screen shows.
DrawStep == scene = "c8" /\ status = "running" /\ screen' # screen

\* C26: when a frame has been presented the current plane (vme.mem) equals
\* the pending plane (vme.buf).
C26_FlipPublishesPending ==
    [][DrawStep => vmem' = buf']_vars

====
